---- MODULE Spec2Model ----
(***************************************************************************)
(* Review session of an AI-enriched JSON document against its original:    *)
(* structural diff (compareJsonObjects), per-path validation store,        *)
(* pending-field collector (getAllPendingFields) and final-document        *)
(* generation (generateFinalJson).                                         *)
(***************************************************************************)
EXTENDS Integers, Sequences, FiniteSets, TLC

VARIABLES
  originalDoc,       \* data.originalProductSchema
  enrichedSchema,    \* data.enrichedProductSchema (the enriched document of the pair)
  enrichedProduct,   \* useProductData state: the enriched document under review
  diffResult,        \* useMemo(compareJsonObjects(original, enrichedProduct))
  validationStates,  \* useValidation state: FieldPathKey -> "approved" | "declined"
  editingState,      \* useEditing state: {fieldPath, value}
  pendingFields,     \* getAllPendingFields(diffResult, validationStates) of the last render
  isDownloadEnabled, \* pendingFields.length === 0 of the last render
  finalJson,         \* the document the last event handed to downloadJsonFile, or NoOutput
  changes,           \* committed edits and removals since the session began or was reset
  result,            \* useProductSchemaEnrichment state: the fetched document pair, or undefined
  loading,           \* useProductSchemaEnrichment state: a request is being awaited
  inflight,          \* the calls of enrichProductSchema waiting at `await fetch(...)`
  parsing,           \* the calls answered ok that wait at `await response.json()`
  calls,             \* the calls of enrichProductSchema in the order issued, when they are told apart
  lastEvent          \* the last handler, if it rewrites a document: its name and arguments

vars == <<originalDoc, enrichedSchema, enrichedProduct, diffResult, validationStates,
          editingState, pendingFields, isDownloadEnabled, finalJson, changes,
          result, loading, inflight, parsing, calls, lastEvent>>

\* the state of useProductSchemaEnrichment
fetchVars == <<result, loading, inflight, parsing, calls>>

(***************************************************************************)
(* JSON values.  An object is the ordered sequence of its entries          *)
(* (insertion order, as Object.keys / Object.entries enumerate it).        *)
(***************************************************************************)
Undefined == [t |-> "undefined"]
Null == [t |-> "null"]
Num(n) == [t |-> "num", n |-> n]
Str(s) == [t |-> "str", s |-> s]
Bool(b) == [t |-> "bool", b |-> b]
Arr(a) == [t |-> "arr", a |-> a]
Obj(e) == [t |-> "obj", e |-> e]
Entry(key, val) == [k |-> key, v |-> val]

SeqToSet(s) == {s[i] : i \in 1..Len(s)}

\* Object.keys(o) of a plain object
ObjectKeys(o) == [i \in 1..Len(o.e) |-> o.e[i].k]

\* o[key] of a plain object: the value, or undefined when the key is absent
GetProp(o, key) ==
  IF \E i \in 1..Len(o.e) : o.e[i].k = key
  THEN o.e[CHOOSE i \in 1..Len(o.e) : o.e[i].k = key].v
  ELSE Undefined

\* typeof v === "object" && v !== null && !Array.isArray(v)
IsPlainObject(v) == v.t = "obj"

RECURSIVE ConcatAll(_)
ConcatAll(ss) == IF ss = <<>> THEN <<>> ELSE Head(ss) \o ConcatAll(Tail(ss))

(***************************************************************************)
(* Path addressing: a FieldPathKey is the string segments.join(".").  A    *)
(* string is kept as the sequence of its dot-free chunks and "."           *)
(* characters, so that joining and splitting act on its characters.        *)
(***************************************************************************)
Chars(key) ==
  CASE key = "a.b" -> <<"a", ".", "b">>
    [] OTHER -> <<key>>

RECURSIVE Join(_)
Join(segments) ==
  IF segments = <<>> THEN <<>>
  ELSE IF Len(segments) = 1 THEN Chars(segments[1])
  ELSE Chars(segments[1]) \o <<".">> \o Join(Tail(segments))

\* `[${idx}]` with the 0-based index idx
IndexSegment(idx) == "[" \o ToString(idx) \o "]"

(***************************************************************************)
(* JSON.stringify, as the sequence of the tokens of the text it produces.  *)
(* Inside an array undefined is written null; an object entry whose value  *)
(* is undefined is left out.                                               *)
(***************************************************************************)
RECURSIVE Stringify(_)
RECURSIVE StringifyItems(_, _)
StringifyItems(items, isArray) ==
  IF items = <<>> THEN <<>>
  ELSE LET first == IF isArray
                    THEN (IF Head(items).t = "undefined" THEN <<"null">> ELSE Stringify(Head(items)))
                    ELSE <<"\"", Head(items).k, "\"", ":">> \o Stringify(Head(items).v)
       IN IF Len(items) = 1 THEN first ELSE first \o <<",">> \o StringifyItems(Tail(items), isArray)

Stringify(v) ==
  CASE v.t = "undefined" -> <<"undefined">>
    [] v.t = "null" -> <<"null">>
    [] v.t = "num" -> <<ToString(v.n)>>
    [] v.t = "str" -> <<"\"", v.s, "\"">>
    [] v.t = "bool" -> <<IF v.b THEN "true" ELSE "false">>
    [] v.t = "arr" -> <<"[">> \o StringifyItems(v.a, TRUE) \o <<"]">>
    [] v.t = "obj" ->
         <<"{">> \o StringifyItems(SelectSeq(v.e, LAMBDA en : en.v.t # "undefined"), FALSE) \o <<"}">>

(***************************************************************************)
(* Diff engine.  A DiffResult is the ordered sequence of its nodes; a node *)
(* is [k, type, value, originalValue, nested], nested being Undefined or   *)
(* Nested(d) for a DiffResult d.                                           *)
(***************************************************************************)
DiffNEW == "new"
DiffMODIFIED == "modified"
DiffUNCHANGED == "unchanged"

Nested(d) == [t |-> "diff", d |-> d]

DiffNode(key, type, value, originalValue, nested) ==
  [k |-> key, type |-> type, value |-> value, originalValue |-> originalValue, nested |-> nested]

\* diffResult[key]: the node, or undefined
DiffGet(d, key) ==
  IF \E i \in 1..Len(d) : d[i].k = key
  THEN d[CHOOSE i \in 1..Len(d) : d[i].k = key]
  ELSE Undefined

\* Object.values(nestedDiff).some((diff) => diff.type !== DiffType.UNCHANGED)
hasChanges(nestedDiff) == \E i \in 1..Len(nestedDiff) : nestedDiff[i].type # DiffUNCHANGED

\* a new key classified as a modification
NewNodeAsModified(key, enrichedValue) ==
  DiffNode(key, DiffMODIFIED, enrichedValue, Undefined, Undefined)

\* key only in enriched
NewNode(key, enrichedValue) == DiffNode(key, DiffNEW, enrichedValue, Undefined, Undefined)

\* leaf comparison by identity (===): two arrays are never equal
LeafNodeByIdentity(key, originalValue, enrichedValue) ==
  LET isEqual == originalValue.t # "arr" /\ originalValue = enrichedValue
  IN DiffNode(key, IF isEqual THEN DiffUNCHANGED ELSE DiffMODIFIED, enrichedValue, originalValue, Undefined)

\* key in both, arrays or primitive values: compare the JSON texts
LeafNode(key, originalValue, enrichedValue) ==
  LET isEqual == Stringify(originalValue) = Stringify(enrichedValue)
  IN DiffNode(key, IF isEqual THEN DiffUNCHANGED ELSE DiffMODIFIED, enrichedValue, originalValue, Undefined)

\* key in both, both plain objects: the node built from the nested diff
ObjectNode(key, originalValue, enrichedValue, nestedDiff) ==
  DiffNode(key, IF hasChanges(nestedDiff) THEN DiffMODIFIED ELSE DiffUNCHANGED,
           enrichedValue, originalValue, Nested(nestedDiff))

\* a key of the original alone reported as a modification to nothing
OriginalOnlyAsModified(key, originalValue) ==
  <<DiffNode(key, DiffMODIFIED, Undefined, originalValue, Undefined)>>

\* key only in original: neither branch applies, no node is written
OriginalOnly(key, originalValue) == <<>>

\* the keys compareJsonObjects reads from one side
SideKeys(side) == IF side.t = "obj" THEN ObjectKeys(side) ELSE <<>>

\* null / undefined is compared as {}
OrEmpty(side) == IF side.t \in {"null", "undefined"} THEN Obj(<<>>) ELSE side

RECURSIVE compareJsonObjects(_, _)
compareJsonObjects(originalArg, enrichedArg) ==
  LET original == OrEmpty(originalArg)
      enriched == OrEmpty(enrichedArg)
      originalKeys == SideKeys(original)
      enrichedKeys == SideKeys(enriched)
      allKeys == originalKeys \o SelectSeq(enrichedKeys, LAMBDA k : k \notin SeqToSet(originalKeys))
      node(key) ==
        LET originalValue == GetProp(original, key)
            enrichedValue == GetProp(enriched, key)
        IN IF key \notin SeqToSet(originalKeys)
           THEN <<NewNode(key, enrichedValue)>>
           ELSE IF key \in SeqToSet(enrichedKeys)
           THEN IF IsPlainObject(originalValue) /\ IsPlainObject(enrichedValue)
                THEN <<ObjectNode(key, originalValue, enrichedValue,
                                  compareJsonObjects(originalValue, enrichedValue))>>
                ELSE <<LeafNode(key, originalValue, enrichedValue)>>
           ELSE OriginalOnly(key, originalValue)
  IN ConcatAll([i \in 1..Len(allKeys) |-> node(allKeys[i])])

(***************************************************************************)
(* Validation store.                                                       *)
(***************************************************************************)
PENDING == "pending"
APPROVED == "approved"
DECLINED == "declined"

EmptyStore == [p \in {} |-> APPROVED]

\* a lookup that takes a path without entry for approved
StateOfAbsentApproved(states, fieldPath) ==
  IF fieldPath \in DOMAIN states THEN states[fieldPath] ELSE APPROVED

\* validationStates[fieldPath] || ValidationState.PENDING
StateOf(states, fieldPath) ==
  IF fieldPath \in DOMAIN states THEN states[fieldPath] ELSE PENDING

\* setValidationStates((prev) => ({...prev, [action.fieldPath]: ...}))
SetState(states, fieldPath, actionType) ==
  [p \in DOMAIN states \cup {fieldPath} |->
     IF p = fieldPath
     THEN (IF actionType = "APPROVE" THEN APPROVED ELSE DECLINED)
     ELSE states[p]]

(***************************************************************************)
(* Final-document generation.                                              *)
(***************************************************************************)
RECURSIVE processObject(_, _, _, _, _)

\* nested && typeof enrichedValue === "object" && !Array.isArray(enrichedValue)
\* (typeof null is "object" too)
Recurses(nested, enrichedValue) ==
  nested.t # "undefined" /\ enrichedValue.t \in {"obj", "null"}

\* originalValue || {}
OrObject(originalValue) ==
  IF \/ originalValue.t \in {"undefined", "null"}
     \/ originalValue = Num(0)
     \/ originalValue = Str("")
     \/ originalValue = Bool(FALSE)
  THEN Obj(<<>>) ELSE originalValue

\* processNew that keeps a declined new field
processNewKeepsDeclined(key, enrichedValue, diffInfo, states, currentPath, validationState) ==
  <<Entry(key, enrichedValue)>>

\* case DiffType.NEW
processNew(key, enrichedValue, diffInfo, states, currentPath, validationState) ==
  IF validationState \in {APPROVED, PENDING}
  THEN IF Recurses(diffInfo.nested, enrichedValue)
       THEN <<Entry(key, processObject(Obj(<<>>), enrichedValue, diffInfo.nested.d, states,
                                       currentPath \o <<key>>))>>
       ELSE <<Entry(key, enrichedValue)>>
  ELSE <<>>

\* processModified that drops a declined field, as for a new field
processModifiedOmitsDeclined(key, enrichedValue, diffInfo, states, currentPath, validationState) ==
  IF validationState = DECLINED
  THEN <<>>
  ELSE IF Recurses(diffInfo.nested, enrichedValue)
       THEN <<Entry(key, processObject(OrObject(diffInfo.originalValue), enrichedValue,
                                       diffInfo.nested.d, states, currentPath \o <<key>>))>>
       ELSE <<Entry(key, enrichedValue)>>

\* processModified that reverts the approved field instead of the declined one
processModifiedSwapped(key, enrichedValue, diffInfo, states, currentPath, validationState) ==
  IF validationState = APPROVED
  THEN <<Entry(key, diffInfo.originalValue)>>
  ELSE IF Recurses(diffInfo.nested, enrichedValue)
       THEN <<Entry(key, processObject(OrObject(diffInfo.originalValue), enrichedValue,
                                       diffInfo.nested.d, states, currentPath \o <<key>>))>>
       ELSE <<Entry(key, enrichedValue)>>

\* processModified that never reverts
processModifiedKeepsEnriched(key, enrichedValue, diffInfo, states, currentPath, validationState) ==
  IF Recurses(diffInfo.nested, enrichedValue)
  THEN <<Entry(key, processObject(OrObject(diffInfo.originalValue), enrichedValue,
                                  diffInfo.nested.d, states, currentPath \o <<key>>))>>
  ELSE <<Entry(key, enrichedValue)>>

\* processModified that recurses into the children before it looks at its own decision
processModifiedRecursesFirst(key, enrichedValue, diffInfo, states, currentPath, validationState) ==
  IF Recurses(diffInfo.nested, enrichedValue)
  THEN <<Entry(key, processObject(OrObject(diffInfo.originalValue), enrichedValue,
                                  diffInfo.nested.d, states, currentPath \o <<key>>))>>
  ELSE IF validationState = DECLINED
       THEN <<Entry(key, diffInfo.originalValue)>>
       ELSE <<Entry(key, enrichedValue)>>

\* case DiffType.MODIFIED
processModified(key, enrichedValue, diffInfo, states, currentPath, validationState) ==
  IF validationState = DECLINED
  THEN <<Entry(key, diffInfo.originalValue)>>
  ELSE IF Recurses(diffInfo.nested, enrichedValue)
       THEN <<Entry(key, processObject(OrObject(diffInfo.originalValue), enrichedValue,
                                       diffInfo.nested.d, states, currentPath \o <<key>>))>>
       ELSE <<Entry(key, enrichedValue)>>

\* processUnchanged that drops the field when a DECLINED is stored for it
processUnchangedHonoursDecline(key, enrichedValue, diffInfo, states, currentPath) ==
  IF StateOf(states, Join(currentPath \o <<key>>)) = DECLINED
  THEN <<>>
  ELSE IF Recurses(diffInfo.nested, enrichedValue)
       THEN <<Entry(key, processObject(OrObject(diffInfo.originalValue), enrichedValue,
                                       diffInfo.nested.d, states, currentPath \o <<key>>))>>
       ELSE <<Entry(key, enrichedValue)>>

\* case DiffType.UNCHANGED and default
processUnchanged(key, enrichedValue, diffInfo, states, currentPath) ==
  IF Recurses(diffInfo.nested, enrichedValue)
  THEN <<Entry(key, processObject(OrObject(diffInfo.originalValue), enrichedValue,
                                  diffInfo.nested.d, states, currentPath \o <<key>>))>>
  ELSE <<Entry(key, enrichedValue)>>

processObject(originalData, enrichedData, diff, states, currentPath) ==
  IF enrichedData.t # "obj"
  THEN enrichedData
  ELSE LET entry(key, enrichedValue) ==
             LET fieldPath == Join(currentPath \o <<key>>)
                 validationState == StateOf(states, fieldPath)
                 diffInfo == DiffGet(diff, key)
             IN IF diffInfo = Undefined
                THEN <<Entry(key, enrichedValue)>>
                ELSE CASE diffInfo.type = DiffNEW ->
                            processNew(key, enrichedValue, diffInfo, states, currentPath, validationState)
                       [] diffInfo.type = DiffMODIFIED ->
                            processModified(key, enrichedValue, diffInfo, states, currentPath, validationState)
                       [] OTHER ->
                            processUnchanged(key, enrichedValue, diffInfo, states, currentPath)
       IN Obj(ConcatAll([i \in 1..Len(enrichedData.e) |->
                            entry(enrichedData.e[i].k, enrichedData.e[i].v)]))

generateFinalJson(originalData, enrichedData, diff, states) ==
  processObject(originalData, enrichedData, diff, states, <<>>)

(***************************************************************************)
(* Pending-field collector.                                                *)
(***************************************************************************)
\* (val) => val === null || typeof val !== "object"
isPrimitive(val) == val.t \notin {"obj", "arr"}

\* a collector without the "@type" rule
NeverPendingNoKey(key) == FALSE

\* if (key === "@type") continue
NeverPending(key) == key = "@type"

\* the collector that counts every childless node, whatever its value
PendingOfNodeAnyValue(diffInfo, fieldPath, validationState) ==
  IF /\ validationState = PENDING
     /\ diffInfo.type \in {DiffNEW, DiffMODIFIED}
     /\ diffInfo.nested.t = "undefined"
  THEN <<fieldPath>>
  ELSE <<>>

\* the fields one node contributes itself
PendingOfNode(diffInfo, fieldPath, validationState) ==
  IF /\ isPrimitive(diffInfo.value)
     /\ validationState = PENDING
     /\ diffInfo.type \in {DiffNEW, DiffMODIFIED}
  THEN <<fieldPath>>
  ELSE <<>>

RECURSIVE getAllPendingFields(_, _, _)
getAllPendingFields(diff, states, path) ==
  LET fields(diffInfo) ==
        IF NeverPending(diffInfo.k) THEN <<>>
        ELSE LET currentPath == path \o <<diffInfo.k>>
                 fieldPath == Join(currentPath)
                 validationState == StateOf(states, fieldPath)
             IN PendingOfNode(diffInfo, fieldPath, validationState)
                \o (IF diffInfo.nested.t = "undefined" THEN <<>>
                    \* an array value never has nested entries without a type
                    ELSE IF diffInfo.value.t = "arr" THEN <<>>
                    ELSE getAllPendingFields(diffInfo.nested.d, states, currentPath))
  IN ConcatAll([i \in 1..Len(diff) |-> fields(diff[i])])

(***************************************************************************)
(* Positions of a document and of a diff tree.                             *)
(***************************************************************************)
\* the value at the position reached through the object keys segs, or undefined
RECURSIVE GetAt(_, _)
GetAt(doc, segs) ==
  IF segs = <<>> THEN doc
  ELSE IF doc.t # "obj" THEN Undefined
  ELSE GetAt(GetProp(doc, Head(segs)), Tail(segs))

\* every position the review tree shows: object keys and array elements
RECURSIVE PositionsOf(_, _)
PositionsOf(value, path) ==
  CASE value.t = "obj" ->
         UNION {{path \o <<value.e[i].k>>} \cup PositionsOf(value.e[i].v, path \o <<value.e[i].k>>)
                  : i \in 1..Len(value.e)}
    [] value.t = "arr" ->
         UNION {{path \o <<IndexSegment(i - 1)>>} \cup PositionsOf(value.a[i], path \o <<IndexSegment(i - 1)>>)
                  : i \in 1..Len(value.a)}
    [] OTHER -> {}

\* the nodes of a diff tree, each with the segments of its path
RECURSIVE NodesOf(_, _)
NodesOf(diff, path) ==
  UNION {{[path |-> path \o <<diff[i].k>>, node |-> diff[i]]}
         \cup (IF diff[i].nested.t = "undefined" THEN {}
               ELSE NodesOf(diff[i].nested.d, path \o <<diff[i].k>>))
           : i \in 1..Len(diff)}

(***************************************************************************)
(* Documents of the bounded universe.                                      *)
(***************************************************************************)
MaxNum == 2
MaxArrLen == 1
MaxDecisions == 2

Nums == {Num(n) : n \in 1..MaxNum}
Prims == {Null} \cup Nums
Arrs == {Arr(a) : a \in UNION {[1..n -> {Num(1)}] : n \in 0..MaxArrLen}}
Leaves == Prims \cup Arrs

OptEntry(key, values) == {<<>>} \cup {<<Entry(key, v)>> : v \in values}
ObjectsOver(k1, values1, k2, values2) ==
  {Obj(e1 \o e2) : e1 \in OptEntry(k1, values1), e2 \in OptEntry(k2, values2)}

TypeVals == Nums \cup {Obj(e) : e \in OptEntry("value", {Num(1)})}
DeepObjs == ObjectsOver("@type", TypeVals, "value", {Num(1)})
InnerObjs == ObjectsOver("currency", Nums, "price", Leaves \cup DeepObjs)
\* an array holding one object, its two keys in either order
ObjArrs ==
  {Arr(<<Obj(<<Entry("currency", Num(1)), Entry("price", Num(1))>>)>>),
   Arr(<<Obj(<<Entry("price", Num(1)), Entry("currency", Num(1))>>)>>)}
Docs == {Obj(e) : e \in OptEntry("offers", Leaves \cup InnerObjs \cup ObjArrs)} \cup Prims

NoOutput == [t |-> "none"]
\* ProductSchemaEnrichmentResponse
Response(original, enriched) ==
  [originalProductSchema |-> original, enrichedProductSchema |-> enriched]
\* no handler has rewritten a document since the last render
NoEvent == [name |-> "none"]
\* a string held where null is possible too (editingState.fieldPath)
StrOf(chars) == [t |-> "str", chars |-> chars]
NoEdit == [fieldPath |-> Null, value |-> Null]

(***************************************************************************)
(* The pure functions applied to every pair of documents and every store   *)
(* of at most MaxDecisions decisions.                                      *)
(***************************************************************************)
\* what a render derives from the session state
Render(original, enriched, states) ==
  LET diff == compareJsonObjects(original, enriched)
      pending == getAllPendingFields(diff, states, <<>>)
  IN [diffResult |-> diff, pendingFields |-> pending, isDownloadEnabled |-> Len(pending) = 0]

InitFn ==
  /\ originalDoc \in Docs
  /\ enrichedSchema \in Docs
  /\ enrichedProduct = enrichedSchema
  /\ validationStates = EmptyStore
  /\ editingState = NoEdit
  /\ diffResult = compareJsonObjects(originalDoc, enrichedProduct)
  /\ pendingFields = getAllPendingFields(diffResult, validationStates, <<>>)
  /\ isDownloadEnabled = (Len(pendingFields) = 0)
  /\ finalJson = NoOutput
  /\ changes = 0
  /\ result = Response(originalDoc, enrichedSchema)
  /\ loading = FALSE
  /\ inflight = 0
  /\ parsing = 0
  /\ calls = <<>>
  /\ lastEvent = NoEvent

\* handleValidation(action) for any position of the enriched document
FnHandleValidation(segs, actionType) ==
  /\ finalJson = NoOutput
  /\ \/ Join(segs) \in DOMAIN validationStates
     \/ Cardinality(DOMAIN validationStates) < MaxDecisions
  /\ validationStates' = SetState(validationStates, Join(segs), actionType)
  /\ pendingFields' = getAllPendingFields(diffResult, validationStates', <<>>)
  /\ isDownloadEnabled' = (Len(pendingFields') = 0)
  /\ lastEvent' = NoEvent
  /\ UNCHANGED <<originalDoc, enrichedSchema, enrichedProduct, diffResult, editingState,
                 finalJson, changes, fetchVars>>

\* generateFinalJson(original, enriched, diff, states)
FnGenerate ==
  /\ finalJson = NoOutput
  /\ finalJson' = generateFinalJson(originalDoc, enrichedProduct, diffResult, validationStates)
  /\ lastEvent' = NoEvent
  /\ UNCHANGED <<originalDoc, enrichedSchema, enrichedProduct, diffResult, validationStates,
                 editingState, pendingFields, isDownloadEnabled, changes, fetchVars>>

NextFn ==
  \/ \E segs \in PositionsOf(enrichedProduct, <<>>), actionType \in {"APPROVE", "DECLINE"} :
       FnHandleValidation(segs, actionType)
  \/ FnGenerate

SpecFn == InitFn /\ [][NextFn]_vars

\* the review tree of every pair of documents under every store of decisions
NextTree ==
  \E segs \in PositionsOf(enrichedProduct, <<>>), actionType \in {"APPROVE", "DECLINE"} :
    FnHandleValidation(segs, actionType)

SpecTree == InitFn /\ [][NextTree]_vars

(***************************************************************************)
(* The review tree (JsonTreeView / JsonNode): which nodes it renders and   *)
(* which controls each node offers.                                        *)
(***************************************************************************)
RECURSIVE getDiffTypeForPath(_, _)
getDiffTypeForPath(diff, path) ==
  IF path = <<>> THEN DiffUNCHANGED
  ELSE LET node == DiffGet(diff, Head(path))
       IN IF node = Undefined THEN DiffUNCHANGED
          ELSE IF Len(path) = 1 THEN node.type
          ELSE IF node.nested.t # "undefined" THEN getDiffTypeForPath(node.nested.d, Tail(path))
          ELSE node.type

RECURSIVE getOriginalValueForPath(_, _)
getOriginalValueForPath(diff, path) ==
  IF path = <<>> THEN Undefined
  ELSE LET node == DiffGet(diff, Head(path))
       IN IF node = Undefined THEN Undefined
          ELSE IF Len(path) = 1 THEN node.originalValue
          ELSE IF node.nested.t # "undefined" THEN getOriginalValueForPath(node.nested.d, Tail(path))
          ELSE node.originalValue

\* val !== null && (typeof val === "object" || Array.isArray(val))
isExpandable(val) == val.t \in {"obj", "arr"}

\* the children a node renders: array items under `[index]`, object entries under their key
ChildItems(value) ==
  CASE value.t = "arr" -> [i \in 1..Len(value.a) |-> [seg |-> IndexSegment(i - 1), v |-> value.a[i]]]
    [] value.t = "obj" -> [i \in 1..Len(value.e) |-> [seg |-> value.e[i].k, v |-> value.e[i].v]]
    [] OTHER -> <<>>

\* getDisplayValue of the node at nodePath holding value
getDisplayValue(value, nodePath, diff, states) ==
  IF StateOf(states, Join(nodePath)) = DECLINED
  THEN IF getDiffTypeForPath(diff, nodePath) = DiffNEW
       THEN Null
       ELSE getOriginalValueForPath(diff, nodePath)
  ELSE value

\* a row can be open: useState(level < 2) opens the rows of the first two
\* levels, and handleToggle toggles the rows whose enriched value is expandable
canBeExpanded(value, level) == level < 2 \/ isExpandable(value)

\* the JsonNode of nodeKey and the JsonNodes below it, every row open that can be
RECURSIVE JsonNode(_, _, _, _, _, _)
JsonNode(nodeKey, value, level, currentPath, diff, states) ==
  LET nodePath == currentPath \o <<nodeKey>>
      diffType == getDiffTypeForPath(diff, nodePath)
      validationState == StateOf(states, Join(nodePath))
      displayValue == getDisplayValue(value, nodePath, diff, states)
      items == IF canBeExpanded(value, level) THEN ChildItems(displayValue) ELSE <<>>
  IN IF validationState = DECLINED /\ diffType = DiffNEW
     THEN {}
     ELSE {[path |-> nodePath, value |-> value, displayValue |-> displayValue,
            diffType |-> diffType, validationState |-> validationState]}
          \cup UNION {JsonNode(items[i].seg, items[i].v, level + 1, nodePath, diff, states)
                        : i \in 1..Len(items)}

JsonTreeView(data, diff, states) ==
  IF data.t \in {"null", "undefined"} THEN {}
  ELSE IF data.t = "obj"
  THEN UNION {JsonNode(data.e[i].k, data.e[i].v, 0, <<>>, diff, states) : i \in 1..Len(data.e)}
  ELSE JsonNode("root", data, 0, <<>>, diff, states)

shouldShowValidationControls(n, editingFieldPath) ==
  /\ n.validationState = PENDING
  /\ n.diffType \in {DiffNEW, DiffMODIFIED}
  /\ ~isExpandable(n.value)
  /\ editingFieldPath # StrOf(Join(n.path))

RECURSIVE isAllChildrenApprovedOrDeleted(_, _, _)
isAllChildrenApprovedOrDeleted(val, path, states) ==
  IF val.t \in {"obj", "arr"}
  THEN LET items == ChildItems(val)
       IN /\ Len(items) # 0
          /\ \A i \in 1..Len(items) :
               isAllChildrenApprovedOrDeleted(items[i].v, path \o <<items[i].seg>>, states)
  ELSE Join(path) \in DOMAIN states /\ states[Join(path)] = APPROVED

showApproveAllControls(n, states) ==
  /\ isExpandable(n.displayValue)
  /\ n.validationState = PENDING
  /\ ~isAllChildrenApprovedOrDeleted(n.displayValue, n.path, states)

\* isAllChildrenApprovedOrDeleted in which an empty object or array counts as approved
RECURSIVE isAllChildrenApprovedOrEmpty(_, _, _)
isAllChildrenApprovedOrEmpty(val, path, states) ==
  IF val.t \in {"obj", "arr"}
  THEN LET items == ChildItems(val)
       IN \A i \in 1..Len(items) :
            isAllChildrenApprovedOrEmpty(items[i].v, path \o <<items[i].seg>>, states)
  ELSE Join(path) \in DOMAIN states /\ states[Join(path)] = APPROVED

\* isFullyApproved in which an empty object or array below the node counts as approved
isFullyApprovedEmptyToo(n, states) ==
  \/ n.validationState = APPROVED
  \/ /\ isExpandable(n.displayValue)
     /\ n.validationState = PENDING
     /\ isAllChildrenApprovedOrEmpty(n.displayValue, n.path, states)

isFullyApproved(n, states) ==
  \/ n.validationState = APPROVED
  \/ /\ isExpandable(n.displayValue)
     /\ n.validationState = PENDING
     /\ isAllChildrenApprovedOrDeleted(n.displayValue, n.path, states)

isFullyDeclined(n, states) ==
  /\ n.validationState = DECLINED
  /\ ~isAllChildrenApprovedOrDeleted(n.displayValue, n.path, states)

\* approveAllFields / approveRecursive: APPROVE every primitive below value
RECURSIVE approveAllFields(_, _, _)
RECURSIVE approveItems(_, _, _)
approveItems(items, path, states) ==
  IF items = <<>> THEN states
  ELSE approveItems(Tail(items), path,
                    approveAllFields(Head(items).v, path \o <<Head(items).seg>>, states))

\* approveAllFields that passes over null values
approveAllFieldsSkipsNull(value, path, states) ==
  IF value.t \in {"obj", "arr"}
  THEN approveItems(ChildItems(value), path, states)
  ELSE IF value.t = "null" THEN states
  ELSE SetState(states, Join(path), "APPROVE")

approveAllFields(value, path, states) ==
  IF value.t \in {"obj", "arr"}
  THEN approveItems(ChildItems(value), path, states)
  ELSE SetState(states, Join(path), "APPROVE")

(***************************************************************************)
(* Editing and removal.                                                    *)
(***************************************************************************)
NaN == [t |-> "nan"]
TypeError == [t |-> "TypeError"]

\* fieldPath.split(".")
RECURSIVE Split(_)
Split(chars) ==
  IF chars = <<>> THEN <<"">>
  ELSE IF Head(chars) = "." THEN <<"">> \o Split(Tail(chars))
  ELSE IF Len(chars) = 1 THEN <<chars[1]>>
  ELSE IF chars[2] = "." THEN <<chars[1]>> \o Split(SubSeq(chars, 3, Len(chars)))
  ELSE Split(<<chars[1] \o chars[2]>> \o SubSeq(chars, 3, Len(chars)))

\* JSON.parse(JSON.stringify(v)) of a value that has a JSON text
RECURSIVE JsonClone(_)
JsonClone(v) ==
  CASE v.t = "obj" ->
         LET kept == SelectSeq(v.e, LAMBDA en : en.v.t # "undefined")
         IN Obj([i \in 1..Len(kept) |-> Entry(kept[i].k, JsonClone(kept[i].v))])
    [] v.t = "arr" ->
         Arr([i \in 1..Len(v.a) |-> IF v.a[i].t = "undefined" THEN Null ELSE JsonClone(v.a[i])])
    [] OTHER -> v

\* !x
Falsy(x) ==
  \/ x.t \in {"undefined", "null", "nan"}
  \/ x = Num(0)
  \/ x = Str("")
  \/ x = Bool(FALSE)

\* obj[key] = val on a plain object: an existing key keeps its place
SetProp(o, key, val) ==
  IF \E i \in 1..Len(o.e) : o.e[i].k = key
  THEN Obj([i \in 1..Len(o.e) |-> IF o.e[i].k = key THEN Entry(key, val) ELSE o.e[i]])
  ELSE Obj(Append(o.e, Entry(key, val)))

\* delete obj[key] on a plain object
DeleteProp(o, key) == Obj(SelectSeq(o.e, LAMBDA en : en.k # key))

\* the walk of updateFieldValue from current along pathArray: the new value of
\* current, or TypeError.  A property such as "[0]" written on an array is not
\* an element: neither JSON.stringify nor a traversal of the array sees it.
RECURSIVE WriteAt(_, _, _)
WriteAt(current, pathArray, newValue) ==
  CASE current.t = "obj" ->
         IF Len(pathArray) = 1
         THEN SetProp(current, Head(pathArray), newValue)
         ELSE LET child == GetProp(current, Head(pathArray))
                  written == WriteAt(IF Falsy(child) THEN Obj(<<>>) ELSE child,
                                     Tail(pathArray), newValue)
              IN IF written = TypeError THEN TypeError
                 ELSE SetProp(current, Head(pathArray), written)
    [] current.t = "arr" -> current
    [] OTHER -> TypeError

updateFieldValue(prev, fieldPath, newValue) ==
  WriteAt(JsonClone(prev), Split(fieldPath), newValue)

\* parseInt(finalKey.replace(/\[|\]/g, ""), 10) for the segments `[index]`, else NaN
ParseIndex(finalKey, length) ==
  IF \E i \in 0..length : finalKey = IndexSegment(i)
  THEN CHOOSE i \in 0..length : finalKey = IndexSegment(i)
  ELSE -1

\* the walk of handleRemoveField: the new value of current, or NoChange when
\* the handler returns before setEnrichedProduct
NoChange == [t |-> "nochange"]

RECURSIVE RemoveAt(_, _)
RemoveAt(current, pathArray) ==
  IF Len(pathArray) = 1
  THEN CASE current.t = "arr" ->
              LET idx == ParseIndex(Head(pathArray), Len(current.a))
              IN IF idx >= 0 /\ idx < Len(current.a)
                 THEN Arr(SubSeq(current.a, 1, idx) \o SubSeq(current.a, idx + 2, Len(current.a)))
                 ELSE current
         [] current.t = "obj" -> DeleteProp(current, Head(pathArray))
         [] OTHER -> current
  ELSE LET child == IF current.t = "obj" THEN GetProp(current, Head(pathArray)) ELSE Undefined
       IN IF Falsy(child) THEN NoChange
          ELSE LET removed == RemoveAt(child, Tail(pathArray))
               IN IF removed = NoChange THEN NoChange
                  ELSE SetProp(current, Head(pathArray), removed)

handleRemoveField(enriched, fieldPath) == RemoveAt(JsonClone(enriched), Split(fieldPath))

\* the texts typed into the edit box
EditTexts == {"12", "x"}

\* Number(text)
NumberOf(text) ==
  CASE text = "12" -> Num(12)
    [] text = "" -> Num(0)
    [] OTHER -> NaN

\* text.toLowerCase()
toLowerCase(text) ==
  CASE text = "TRUE" -> "true"
    [] text = "NULL" -> "null"
    [] OTHER -> text

\* EditableValue.handleSave: the value handed to onSave
handleSave(value, editValue) ==
  CASE value.t = "num" -> IF NumberOf(editValue) # NaN THEN NumberOf(editValue) ELSE Str(editValue)
    [] value.t = "bool" -> Bool(toLowerCase(editValue) = "true")
    [] value.t = "null" /\ toLowerCase(editValue) = "null" -> Null
    [] OTHER -> Str(editValue)

(***************************************************************************)
(* The review session (ProductDataEnrichment).                             *)
(***************************************************************************)
MaxChanges == 1

Example1Original == Obj(<<Entry("name", Str("A")), Entry("price", Num(10))>>)
Example1Enriched ==
  Obj(<<Entry("name", Str("A")), Entry("price", Num(12)), Entry("color", Str("red"))>>)

Example2Original ==
  Obj(<<Entry("@type", Str("Product")),
        Entry("offers", Obj(<<Entry("price", Num(10)), Entry("currency", Str("USD"))>>))>>)
Example2Enriched ==
  Obj(<<Entry("@type", Str("Product")),
        Entry("offers", Obj(<<Entry("price", Num(12)), Entry("currency", Str("USD"))>>)),
        Entry("image", Arr(<<Str("a")>>)),
        Entry("brand", Obj(<<Entry("name", Str("B"))>>))>>)

SessionPairs ==
  {<<Example1Original, Example1Enriched>>, <<Example2Original, Example2Enriched>>}

\* the updater handed to setEnrichedProduct threw: the render that runs it
\* fails, the page is taken down and no handler of it runs again
Thrown == enrichedProduct = TypeError

\* ProductDataEnrichment is rendered and its handlers can run
Mounted == ~Thrown

\* the state every render derives from (original, enrichedProduct, validationStates);
\* a render whose updater throws derives nothing
Rendered(enriched, states) ==
  IF enriched = TypeError
  THEN /\ diffResult' = <<>>
       /\ pendingFields' = <<>>
       /\ isDownloadEnabled' = FALSE
  ELSE /\ diffResult' = IF enriched = enrichedProduct THEN diffResult
                        ELSE compareJsonObjects(originalDoc, enriched)
       /\ pendingFields' = getAllPendingFields(diffResult', states, <<>>)
       /\ isDownloadEnabled' = (Len(pendingFields') = 0)

Init ==
  /\ \E pair \in SessionPairs : originalDoc = pair[1] /\ enrichedSchema = pair[2]
  /\ enrichedProduct = enrichedSchema
  /\ validationStates = EmptyStore
  /\ editingState = NoEdit
  /\ diffResult = Render(originalDoc, enrichedProduct, validationStates).diffResult
  /\ pendingFields = Render(originalDoc, enrichedProduct, validationStates).pendingFields
  /\ isDownloadEnabled = Render(originalDoc, enrichedProduct, validationStates).isDownloadEnabled
  /\ finalJson = NoOutput
  /\ changes = 0
  /\ result = Response(originalDoc, enrichedSchema)
  /\ loading = FALSE
  /\ inflight = 0
  /\ parsing = 0
  /\ calls = <<>>
  /\ lastEvent = NoEvent

TreeNodes ==
  IF Thrown THEN {} ELSE JsonTreeView(enrichedProduct, diffResult, validationStates)

\* handleApprove / handleDecline of a node that shows the validation controls
HandleValidation(n, actionType) ==
  /\ Mounted
  /\ shouldShowValidationControls(n, editingState.fieldPath)
  /\ validationStates' = SetState(validationStates, Join(n.path), actionType)
  /\ Rendered(enrichedProduct, validationStates')
  /\ finalJson' = NoOutput
  /\ lastEvent' = NoEvent
  /\ UNCHANGED <<originalDoc, enrichedSchema, enrichedProduct, editingState, changes, fetchVars>>

\* handleApproveAll of an object or array node
HandleNodeApproveAll(n) ==
  /\ Mounted
  /\ showApproveAllControls(n, validationStates)
  /\ validationStates' = approveAllFields(n.value, n.path, validationStates)
  /\ Rendered(enrichedProduct, validationStates')
  /\ finalJson' = NoOutput
  /\ lastEvent' = NoEvent
  /\ UNCHANGED <<originalDoc, enrichedSchema, enrichedProduct, editingState, changes, fetchVars>>

\* the "Approve All Changes" button, shown while fields are pending
HandleApproveAll ==
  /\ Mounted
  /\ Len(pendingFields) > 0
  /\ validationStates' = approveAllFields(enrichedProduct, <<>>, validationStates)
  /\ Rendered(enrichedProduct, validationStates')
  /\ finalJson' = NoOutput
  /\ lastEvent' = NoEvent
  /\ UNCHANGED <<originalDoc, enrichedSchema, enrichedProduct, editingState, changes, fetchVars>>

\* handleRemove of an object or array node
HandleRemoveField(n) ==
  /\ Mounted
  /\ showApproveAllControls(n, validationStates)
  /\ changes < MaxChanges
  /\ LET newData == handleRemoveField(enrichedProduct, Join(n.path))
     IN /\ enrichedProduct' = IF newData = NoChange THEN enrichedProduct ELSE newData
        /\ changes' = IF newData = NoChange THEN changes ELSE changes + 1
  /\ Rendered(enrichedProduct', validationStates)
  /\ finalJson' = NoOutput
  /\ lastEvent' = [name |-> "handleRemoveField", path |-> n.path]
  /\ UNCHANGED <<originalDoc, enrichedSchema, validationStates, editingState, fetchVars>>

\* a reset that empties the store and leaves the edited document in place
resetOnClickKeepsDocument(schema) ==
  [validationStates |-> EmptyStore, enrichedProduct |-> enrichedProduct]

\* onClick of the "Reset Validation" button: resetValidation() and setEnrichedProduct(clone)
resetOnClick(schema) ==
  [validationStates |-> EmptyStore, enrichedProduct |-> JsonClone(schema)]

\* the "Reset Validation" button
ResetValidation ==
  /\ Mounted
  /\ validationStates' = resetOnClick(enrichedSchema).validationStates
  /\ enrichedProduct' = resetOnClick(enrichedSchema).enrichedProduct
  /\ changes' = 0
  /\ Rendered(enrichedProduct', validationStates')
  /\ finalJson' = NoOutput
  /\ lastEvent' = [name |-> "resetValidation",
                   reviewed |-> (validationStates # EmptyStore /\ enrichedProduct # enrichedSchema)]
  /\ UNCHANGED <<originalDoc, enrichedSchema, editingState, fetchVars>>

\* handleValueClick on a primitive value that is not being edited
StartEditing(n) ==
  /\ Mounted
  /\ ~isExpandable(n.displayValue)
  /\ ~isExpandable(n.value)
  /\ editingState.fieldPath # StrOf(Join(n.path))
  /\ editingState' = [fieldPath |-> StrOf(Join(n.path)), value |-> n.value]
  /\ finalJson' = NoOutput
  /\ lastEvent' = NoEvent
  /\ UNCHANGED <<originalDoc, enrichedSchema, enrichedProduct, diffResult, validationStates,
                 pendingFields, isDownloadEnabled, changes, fetchVars>>

\* handleUpdateValue that forgets the decision stored for the edited field
handleUpdateValueResetsField(enriched, states, fieldPath, newValue) ==
  [enrichedProduct |-> updateFieldValue(enriched, fieldPath, newValue),
   validationStates |-> [p \in DOMAIN states \ {fieldPath} |-> states[p]]]

\* handleUpdateValue: the document is rewritten, the store is only read
handleUpdateValue(enriched, states, fieldPath, newValue) ==
  [enrichedProduct |-> updateFieldValue(enriched, fieldPath, newValue),
   validationStates |-> states]

\* Enter or blur in the edit box of the node being edited
HandleEditSave(n, editValue) ==
  /\ Mounted
  /\ editingState.fieldPath = StrOf(Join(n.path))
  /\ ~isExpandable(n.displayValue)
  /\ changes < MaxChanges
  /\ LET newValue == handleSave(n.displayValue, editValue)
         updated == handleUpdateValue(enrichedProduct, validationStates, Join(n.path), newValue)
     IN /\ enrichedProduct' = updated.enrichedProduct
        /\ validationStates' = updated.validationStates
        /\ lastEvent' = [name |-> "handleEditSave", path |-> n.path, newValue |-> newValue]
  /\ changes' = changes + 1
  /\ editingState' = NoEdit
  /\ Rendered(enrichedProduct', validationStates')
  /\ finalJson' = NoOutput
  /\ UNCHANGED <<originalDoc, enrichedSchema, fetchVars>>

\* Escape in the edit box of the node being edited
HandleEditCancel(n) ==
  /\ Mounted
  /\ editingState.fieldPath = StrOf(Join(n.path))
  /\ ~isExpandable(n.displayValue)
  /\ editingState' = NoEdit
  /\ finalJson' = NoOutput
  /\ lastEvent' = NoEvent
  /\ UNCHANGED <<originalDoc, enrichedSchema, enrichedProduct, diffResult, validationStates,
                 pendingFields, isDownloadEnabled, changes, fetchVars>>

\* handleDownload without its early return
HandleDownloadUnguarded ==
  /\ Mounted
  /\ finalJson' = generateFinalJson(originalDoc, enrichedProduct, diffResult, validationStates)
  /\ lastEvent' = NoEvent
  /\ UNCHANGED <<originalDoc, enrichedSchema, enrichedProduct, diffResult, validationStates,
                 editingState, pendingFields, isDownloadEnabled, changes, fetchVars>>

\* handleDownload behind the download button
HandleDownload ==
  /\ Mounted
  /\ isDownloadEnabled
  /\ finalJson' = generateFinalJson(originalDoc, enrichedProduct, diffResult, validationStates)
  /\ lastEvent' = NoEvent
  /\ UNCHANGED <<originalDoc, enrichedSchema, enrichedProduct, diffResult, validationStates,
                 editingState, pendingFields, isDownloadEnabled, changes, fetchVars>>

Next ==
  \/ \E n \in TreeNodes :
       \/ \E actionType \in {"APPROVE", "DECLINE"} : HandleValidation(n, actionType)
       \/ HandleNodeApproveAll(n)
       \/ HandleRemoveField(n)
       \/ StartEditing(n)
       \/ \E editValue \in EditTexts : HandleEditSave(n, editValue)
       \/ HandleEditCancel(n)
  \/ HandleApproveAll
  \/ ResetValidation
  \/ HandleDownload

Spec == Init /\ [][Next]_vars

(***************************************************************************)
(* Editing and removal applied to every position of a document and to      *)
(* paths that lead nowhere in it.                                          *)
(***************************************************************************)
\* the value the review tree shows at a position: object keys and the
\* segments `[index]` of array elements; undefined where there is no position
RECURSIVE ValueAt(_, _)
ValueAt(doc, segs) ==
  IF segs = <<>> THEN doc
  ELSE CASE doc.t = "obj" -> ValueAt(GetProp(doc, Head(segs)), Tail(segs))
         [] doc.t = "arr" ->
              LET idx == ParseIndex(Head(segs), Len(doc.a))
              IN IF idx >= 0 /\ idx < Len(doc.a)
                 THEN ValueAt(doc.a[idx + 1], Tail(segs))
                 ELSE Undefined
         [] OTHER -> Undefined

\* a document with a value of every type, arrays of primitives and of objects
EditEnriched ==
  Obj(<<Entry("name", Str("A")),
        Entry("price", Num(10)),
        Entry("inStock", Bool(TRUE)),
        Entry("note", Null),
        Entry("image", Arr(<<Str("a"), Str("b")>>)),
        Entry("offers", Obj(<<Entry("price", Num(12)),
                              Entry("dims", Obj(<<Entry("w", Num(1))>>))>>)),
        Entry("items", Arr(<<Obj(<<Entry("sku", Str("s")),
                                   Entry("tags", Arr(<<Str("t")>>))>>)>>))>>)

EditDocs == {EditEnriched, Example2Enriched}

\* paths that are no position of the documents
MissingPaths ==
  {<<"maker", "name">>, <<"offers", "dims", "h">>, <<"image", "x">>, <<"name", "x">>,
   <<"note", "x">>}

EditPaths(doc) == PositionsOf(doc, <<>>) \cup MissingPaths

\* the texts typed into the edit box of a value of any type
FnEditTexts == EditTexts \cup {"TRUE", "false"}

InitEdit ==
  /\ originalDoc \in {Example1Original, Example2Original}
  /\ enrichedSchema \in EditDocs
  /\ enrichedProduct = enrichedSchema
  /\ validationStates = EmptyStore
  /\ editingState = NoEdit
  /\ diffResult = compareJsonObjects(originalDoc, enrichedProduct)
  /\ pendingFields = getAllPendingFields(diffResult, validationStates, <<>>)
  /\ isDownloadEnabled = (Len(pendingFields) = 0)
  /\ finalJson = NoOutput
  /\ changes = 0
  /\ result = Response(originalDoc, enrichedSchema)
  /\ loading = FALSE
  /\ inflight = 0
  /\ parsing = 0
  /\ calls = <<>>
  /\ lastEvent = NoEvent

\* EditableValue.handleSave and handleEditSave for the value at a path
FnEditSave(segs, editValue) ==
  /\ ~Thrown
  /\ changes < MaxChanges
  /\ ~isExpandable(ValueAt(enrichedProduct, segs))
  /\ LET value == ValueAt(enrichedProduct, segs)
         newValue == handleSave(value, editValue)
         updated == handleUpdateValue(enrichedProduct, validationStates, Join(segs), newValue)
     IN /\ enrichedProduct' = updated.enrichedProduct
        /\ validationStates' = updated.validationStates
        /\ lastEvent' = [name |-> "handleEditSave", path |-> segs, value |-> value,
                         editValue |-> editValue, newValue |-> newValue,
                         before |-> enrichedProduct]
  /\ changes' = changes + 1
  /\ editingState' = NoEdit
  /\ Rendered(enrichedProduct', validationStates')
  /\ UNCHANGED <<originalDoc, enrichedSchema, finalJson, fetchVars>>

\* handleRemoveField for a path
FnRemoveField(segs) ==
  /\ ~Thrown
  /\ changes < MaxChanges
  /\ LET newData == handleRemoveField(enrichedProduct, Join(segs))
     IN enrichedProduct' = IF newData = NoChange THEN enrichedProduct ELSE newData
  /\ changes' = changes + 1
  /\ Rendered(enrichedProduct', validationStates)
  /\ lastEvent' = [name |-> "handleRemoveField", path |-> segs, before |-> enrichedProduct]
  /\ UNCHANGED <<originalDoc, enrichedSchema, validationStates, editingState, finalJson,
                 fetchVars>>

NextEdit ==
  \/ \E segs \in EditPaths(enrichedProduct), editValue \in FnEditTexts : FnEditSave(segs, editValue)
  \/ \E segs \in EditPaths(enrichedProduct) : FnRemoveField(segs)

SpecEdit == InitEdit /\ [][NextEdit]_vars

(***************************************************************************)
(* Decisions and generation on documents whose keys contain "." or look    *)
(* like an array segment.                                                  *)
(***************************************************************************)
KeyOriginals ==
  {Obj(<<Entry("a.b", Num(1)), Entry("a", Obj(<<Entry("b", Num(1))>>)), Entry("c", Num(1))>>),
   Obj(<<Entry("[0]", Num(1)), Entry("a", Arr(<<Num(1)>>))>>)}
KeyEnricheds ==
  {Obj(<<Entry("a.b", Num(2)), Entry("a", Obj(<<Entry("b", Num(2))>>)), Entry("c", Num(2))>>),
   Obj(<<Entry("[0]", Num(2)), Entry("a", Arr(<<Num(2)>>)), Entry("c", Num(2))>>)}

InitKeys ==
  /\ originalDoc \in KeyOriginals
  /\ enrichedSchema \in KeyEnricheds
  /\ enrichedProduct = enrichedSchema
  /\ validationStates = EmptyStore
  /\ editingState = NoEdit
  /\ diffResult = compareJsonObjects(originalDoc, enrichedProduct)
  /\ pendingFields = getAllPendingFields(diffResult, validationStates, <<>>)
  /\ isDownloadEnabled = (Len(pendingFields) = 0)
  /\ finalJson = NoOutput
  /\ changes = 0
  /\ result = Response(originalDoc, enrichedSchema)
  /\ loading = FALSE
  /\ inflight = 0
  /\ parsing = 0
  /\ calls = <<>>
  /\ lastEvent = NoEvent

SpecKeys == InitKeys /\ [][NextFn]_vars

(***************************************************************************)
(* Decisions and the "Approve All Changes" button on documents with nested *)
(* objects, arrays and null values.                                        *)
(***************************************************************************)
ApproveOriginals == {Example1Original, Obj(<<>>)}
ApproveEnricheds == {EditEnriched, Example2Enriched}

InitApprove ==
  /\ originalDoc \in ApproveOriginals
  /\ enrichedSchema \in ApproveEnricheds
  /\ enrichedProduct = enrichedSchema
  /\ validationStates = EmptyStore
  /\ editingState = NoEdit
  /\ diffResult = compareJsonObjects(originalDoc, enrichedProduct)
  /\ pendingFields = getAllPendingFields(diffResult, validationStates, <<>>)
  /\ isDownloadEnabled = (Len(pendingFields) = 0)
  /\ finalJson = NoOutput
  /\ changes = 0
  /\ result = Response(originalDoc, enrichedSchema)
  /\ loading = FALSE
  /\ inflight = 0
  /\ parsing = 0
  /\ calls = <<>>
  /\ lastEvent = NoEvent

\* handleApproveAll behind its button, and the render that follows
FnApproveAll ==
  /\ Len(pendingFields) > 0
  /\ validationStates' = approveAllFields(enrichedProduct, <<>>, validationStates)
  /\ pendingFields' = getAllPendingFields(diffResult, validationStates', <<>>)
  /\ isDownloadEnabled' = (Len(pendingFields') = 0)
  /\ lastEvent' = [name |-> "handleApproveAll", declined |->
                     \E p \in DOMAIN validationStates : validationStates[p] = DECLINED]
  /\ UNCHANGED <<originalDoc, enrichedSchema, enrichedProduct, diffResult, editingState,
                 finalJson, changes, fetchVars>>

\* single decisions are taken while the store holds at most MaxDecisions of them
NextApprove ==
  \/ \E segs \in PositionsOf(enrichedProduct, <<>>), actionType \in {"APPROVE", "DECLINE"} :
       /\ Cardinality(DOMAIN validationStates) <= MaxDecisions
       /\ FnHandleValidation(segs, actionType)
  \/ FnApproveAll

SpecApprove == InitApprove /\ [][NextApprove]_vars

(***************************************************************************)
(* The fetch hook (useProductSchemaEnrichment) with its calls told apart:  *)
(* several calls may be awaited at once and their answers arrive in any    *)
(* order.                                                                  *)
(***************************************************************************)
MaxCalls == 3

\* a call waiting at `await fetch(...)`
Awaited == [settled |-> FALSE, answered |-> FALSE]
\* a call answered ok, waiting at `await response.json()`
Answered == [settled |-> FALSE, answered |-> TRUE]
\* a call that has run to its end, with the result it stored
Settled(outcome) == [settled |-> TRUE, outcome |-> outcome]

\* the hook after its first render: no result; no review is rendered beside it
InitFetch ==
  /\ originalDoc = Undefined
  /\ enrichedSchema = Undefined
  /\ enrichedProduct = Undefined
  /\ validationStates = EmptyStore
  /\ editingState = NoEdit
  /\ diffResult = <<>>
  /\ pendingFields = <<>>
  /\ isDownloadEnabled = FALSE
  /\ finalJson = NoOutput
  /\ changes = 0
  /\ result = Undefined
  /\ loading = FALSE
  /\ inflight = 0
  /\ parsing = 0
  /\ calls = <<>>
  /\ lastEvent = NoEvent

\* what the endpoint may answer: a failure, or a document pair
Responses ==
  {[ok |-> FALSE]} \cup {[ok |-> TRUE, data |-> Response(pair[1], pair[2])] : pair \in SessionPairs}

\* enrichProductSchema after the await: the result it stores
enrichProductSchemaResult(response) ==
  IF response.ok THEN response.data ELSE Undefined

\* enrichProductSchema up to the await
FnEnrichProductSchema ==
  /\ Len(calls) < MaxCalls
  /\ loading' = TRUE
  /\ inflight' = inflight + 1
  /\ calls' = Append(calls, Awaited)
  /\ lastEvent' = NoEvent
  /\ UNCHANGED <<originalDoc, enrichedSchema, enrichedProduct, diffResult, validationStates,
                 editingState, pendingFields, isDownloadEnabled, finalJson, changes, result,
                 parsing>>

\* the call issued i-th resumes after `await fetch(...)` with an ok answer and
\* waits again, at `await response.json()`
FnResponds(i) ==
  /\ calls[i] = Awaited
  /\ inflight' = inflight - 1
  /\ parsing' = parsing + 1
  /\ calls' = [calls EXCEPT ![i] = Answered]
  /\ lastEvent' = NoEvent
  /\ UNCHANGED <<originalDoc, enrichedSchema, enrichedProduct, diffResult, validationStates,
                 editingState, pendingFields, isDownloadEnabled, finalJson, changes, result,
                 loading>>

\* the call issued i-th runs to its end: waiting at fetch it resumes with a
\* rejection or an answer that is not ok, waiting at response.json() with the
\* data or a rejection
FnSettles(i, response) ==
  /\ \/ /\ calls[i] = Awaited
        /\ ~response.ok
        /\ inflight' = inflight - 1
        /\ parsing' = parsing
     \/ /\ calls[i] = Answered
        /\ parsing' = parsing - 1
        /\ inflight' = inflight
  /\ result' = enrichProductSchemaResult(response)
  /\ loading' = FALSE
  /\ calls' = [calls EXCEPT ![i] = Settled(result')]
  /\ lastEvent' = [name |-> "enrichProductSchema", ok |-> response.ok]
  /\ UNCHANGED <<originalDoc, enrichedSchema, enrichedProduct, diffResult, validationStates,
                 editingState, pendingFields, isDownloadEnabled, finalJson, changes>>

\* setResult as the hook hands it out: the caller stores a pair, or none
SetResult(value) ==
  /\ result' = value
  /\ lastEvent' = NoEvent
  /\ UNCHANGED <<originalDoc, enrichedSchema, enrichedProduct, diffResult, validationStates,
                 editingState, pendingFields, isDownloadEnabled, finalJson, changes, loading,
                 inflight, parsing, calls>>

\* the values a caller may hand to setResult
Results == {Undefined} \cup {Response(pair[1], pair[2]) : pair \in SessionPairs}

NextFetch ==
  \/ FnEnrichProductSchema
  \/ \E i \in 1..Len(calls) : FnResponds(i)
  \/ \E i \in 1..Len(calls), response \in Responses : FnSettles(i, response)
  \/ \E value \in Results : SetResult(value)

SpecFetch == InitFetch /\ [][NextFetch]_vars

(***************************************************************************)
(* The editing hook (useEditing) on its own: every function it hands out.  *)
(***************************************************************************)
\* the paths and the values its callers pass
EditingPaths == {Join(<<"price">>), Join(<<"offers", "price">>)}
EditingValues == {Num(12), Num(11), Str("x"), Null}

\* useEditing after its first render
InitEditing == InitFetch

\* startEditing(fieldPath, currentValue)
FnStartEditing(fieldPath, currentValue) ==
  /\ editingState' = [fieldPath |-> StrOf(fieldPath), value |-> currentValue]
  /\ lastEvent' = NoEvent
  /\ UNCHANGED <<originalDoc, enrichedSchema, enrichedProduct, diffResult, validationStates,
                 pendingFields, isDownloadEnabled, finalJson, changes, fetchVars>>

\* updateEditingValue(value): the path is kept, the value replaced
FnUpdateEditingValue(value) ==
  /\ editingState' = [editingState EXCEPT !.value = value]
  /\ lastEvent' = NoEvent
  /\ UNCHANGED <<originalDoc, enrichedSchema, enrichedProduct, diffResult, validationStates,
                 pendingFields, isDownloadEnabled, finalJson, changes, fetchVars>>

\* stopEditing()
FnStopEditing ==
  /\ editingState' = NoEdit
  /\ lastEvent' = NoEvent
  /\ UNCHANGED <<originalDoc, enrichedSchema, enrichedProduct, diffResult, validationStates,
                 pendingFields, isDownloadEnabled, finalJson, changes, fetchVars>>

NextEditing ==
  \/ \E fieldPath \in EditingPaths, currentValue \in EditingValues :
       FnStartEditing(fieldPath, currentValue)
  \/ \E value \in EditingValues : FnUpdateEditingValue(value)
  \/ FnStopEditing

SpecEditing == InitEditing /\ [][NextEditing]_vars

(***************************************************************************)
(* Properties of generation, checked on the output of FnGenerate.          *)
(***************************************************************************)
Nodes == NodesOf(diffResult, <<>>)
IsLeaf(n) == n.node.nested.t = "undefined"
KeyState(segs) == StateOf(validationStates, Join(segs))
Generated == finalJson # NoOutput
ProperPrefixes(segs) == {SubSeq(segs, 1, n) : n \in 1..(Len(segs) - 1)}
AncestorDeclined(segs) == \E p \in ProperPrefixes(segs) : KeyState(p) = DECLINED

\* C1 Decline-reverts: at the path of every MODIFIED leaf that is DECLINED the
\* generated document holds the original document's value, whatever is stored
\* for other paths.
DeclineReverts ==
  Generated =>
    \A n \in Nodes :
      (IsLeaf(n) /\ n.node.type = DiffMODIFIED /\ KeyState(n.path) = DECLINED)
        => GetAt(finalJson, n.path) = GetAt(originalDoc, n.path)

DeclineRevertsWitness ==
  /\ Generated
  /\ \E n \in Nodes :
       /\ IsLeaf(n) /\ n.node.type = DiffMODIFIED /\ KeyState(n.path) = DECLINED
       /\ Len(n.path) >= 2
       /\ GetAt(finalJson, n.path) # n.node.value
       /\ \E p \in DOMAIN validationStates : p # Join(n.path)

\* C2 as claimed: a DECLINED NEW leaf is absent from the generated document and
\* an APPROVED or PENDING one is present with the enriched value.
OmissionAsClaimed ==
  Generated =>
    \A n \in Nodes :
      n.node.type = DiffNEW =>
        IF KeyState(n.path) = DECLINED
        THEN GetAt(finalJson, n.path) = Undefined
        ELSE GetAt(finalJson, n.path) = n.node.value

\* C2 amended: a DECLINED NEW leaf is absent from the generated document; an
\* APPROVED or PENDING one is present with the enriched value unless an
\* enclosing node is DECLINED.
Omission ==
  Generated =>
    \A n \in Nodes :
      n.node.type = DiffNEW =>
        /\ KeyState(n.path) = DECLINED => GetAt(finalJson, n.path) = Undefined
        /\ (KeyState(n.path) # DECLINED /\ ~AncestorDeclined(n.path))
             => GetAt(finalJson, n.path) = n.node.value

OmissionWitness ==
  /\ Generated
  /\ \E n, m \in Nodes :
       /\ n.node.type = DiffNEW /\ KeyState(n.path) = DECLINED
       /\ GetAt(finalJson, n.path) = Undefined
       /\ m.node.type = DiffNEW /\ KeyState(m.path) = APPROVED
       /\ GetAt(finalJson, m.path) = m.node.value

\* C7 Whole-subtree revert: under the key of a MODIFIED node whose own path is
\* DECLINED the generated document holds the node's originalValue verbatim,
\* whatever is stored for the paths below it.
WholeSubtreeRevert ==
  Generated =>
    \A n \in Nodes :
      (n.node.type = DiffMODIFIED /\ KeyState(n.path) = DECLINED)
        => GetAt(finalJson, n.path) = n.node.originalValue

WholeSubtreeRevertWitness ==
  /\ Generated
  /\ \E n, below \in Nodes :
       /\ ~IsLeaf(n) /\ n.node.type = DiffMODIFIED /\ KeyState(n.path) = DECLINED
       /\ Len(below.path) > Len(n.path)
       /\ SubSeq(below.path, 1, Len(n.path)) = n.path
       /\ below.node.type # DiffUNCHANGED
       /\ KeyState(below.path) = APPROVED
       /\ GetAt(finalJson, n.path) = n.node.originalValue

\* the leaf children of the object node m for which DECLINED is stored
DeclinedLeafChildren(m) ==
  LET kids == m.node.nested.d
  IN {i \in 1..Len(kids) :
        kids[i].nested.t = "undefined" /\ KeyState(m.path \o <<kids[i].k>>) = DECLINED}

\* C3 as claimed: under a MODIFIED object node that is not DECLINED and has
\* exactly one DECLINED child leaf, that child holds the original value and
\* every sibling key holds its enriched value.
SiblingIsolationAsClaimed ==
  Generated =>
    \A m \in Nodes :
      (~IsLeaf(m) /\ m.node.type = DiffMODIFIED /\ KeyState(m.path) # DECLINED
         /\ Cardinality(DeclinedLeafChildren(m)) = 1)
        => LET kids == m.node.nested.d
               out == GetAt(finalJson, m.path)
           IN \A i \in 1..Len(kids) :
                IF i \in DeclinedLeafChildren(m)
                THEN GetAt(out, <<kids[i].k>>) = kids[i].originalValue
                ELSE GetAt(out, <<kids[i].k>>) = kids[i].value

\* C3 amended: under a MODIFIED object node that is not DECLINED, has no
\* DECLINED enclosing node and has exactly one DECLINED child leaf, that child
\* holds the original value (is absent when NEW), every sibling key is present
\* and every sibling leaf holds its enriched value.
SiblingIsolation ==
  Generated =>
    \A m \in Nodes :
      (~IsLeaf(m) /\ m.node.type = DiffMODIFIED /\ KeyState(m.path) # DECLINED
         /\ ~AncestorDeclined(m.path)
         /\ Cardinality(DeclinedLeafChildren(m)) = 1)
        => LET kids == m.node.nested.d
               out == GetAt(finalJson, m.path)
           IN /\ out.t = "obj"
              /\ Len(kids) = Len(m.node.value.e)
              /\ \A i \in 1..Len(kids) :
                   IF i \in DeclinedLeafChildren(m)
                   THEN GetAt(out, <<kids[i].k>>) = kids[i].originalValue
                   ELSE IF kids[i].nested.t = "undefined"
                        THEN GetAt(out, <<kids[i].k>>) = kids[i].value
                        ELSE GetAt(out, <<kids[i].k>>) # Undefined

SiblingIsolationWitness ==
  /\ Generated
  /\ \E m \in Nodes :
       /\ ~IsLeaf(m) /\ m.node.type = DiffMODIFIED /\ KeyState(m.path) # DECLINED
       /\ Cardinality(DeclinedLeafChildren(m)) = 1
       /\ LET kids == m.node.nested.d
          IN \E i, j \in 1..Len(kids) :
               /\ i \in DeclinedLeafChildren(m) /\ kids[i].type = DiffMODIFIED
               /\ GetAt(finalJson, m.path \o <<kids[i].k>>) = kids[i].originalValue
               /\ j # i /\ kids[j].nested.t = "undefined"
               /\ GetAt(finalJson, m.path \o <<kids[j].k>>) = kids[j].value

(***************************************************************************)
(* Properties of the pending-field collector.                              *)
(***************************************************************************)
NoDuplicates(s) == Cardinality(SeqToSet(s)) = Len(s)

\* C4 as claimed: the pending list holds exactly the paths of the childless
\* nodes whose key is not "@type", whose kind is NEW or MODIFIED and whose
\* state is PENDING, arrays and objects added as a whole included.
CollectorAsClaimed ==
  /\ NoDuplicates(pendingFields)
  /\ SeqToSet(pendingFields) =
       {Join(n.path) : n \in {x \in Nodes :
           /\ IsLeaf(x)
           /\ x.node.k # "@type"
           /\ x.node.type \in {DiffNEW, DiffMODIFIED}
           /\ KeyState(x.path) = PENDING}}

\* C4 amended: the pending list holds exactly the paths of the nodes whose
\* enriched value is a primitive, whose key is not "@type" and that are not
\* below a node keyed "@type", whose kind is NEW or MODIFIED and whose state is
\* PENDING; a node whose value is an array or an object contributes nothing
\* itself.
Collector ==
  /\ NoDuplicates(pendingFields)
  /\ SeqToSet(pendingFields) =
       {Join(n.path) : n \in {x \in Nodes :
           /\ isPrimitive(x.node.value)
           /\ \A i \in 1..Len(x.path) : x.path[i] # "@type"
           /\ x.node.type \in {DiffNEW, DiffMODIFIED}
           /\ KeyState(x.path) = PENDING}}

CollectorWitness ==
  /\ validationStates # EmptyStore
  /\ \E p \in SeqToSet(pendingFields) : Len(p) >= 3
  /\ \E n \in Nodes :
       /\ IsLeaf(n) /\ n.node.value.t = "arr" /\ n.node.type = DiffNEW
       /\ KeyState(n.path) = PENDING
       /\ Join(n.path) \notin SeqToSet(pendingFields)

\* C13 "@type" exclusion: no path returned by getAllPendingFields ends with the
\* segment "@type", whatever the kind of that node and whatever is stored.
TypeKeyExcluded ==
  \A i \in 1..Len(pendingFields) : pendingFields[i][Len(pendingFields[i])] # "@type"

TypeKeyExcludedWitness ==
  /\ validationStates # EmptyStore
  /\ \E n, sib \in Nodes :
       /\ n.node.k = "@type" /\ n.node.type = DiffMODIFIED /\ isPrimitive(n.node.value)
       /\ KeyState(n.path) = PENDING
       /\ sib.node.k # "@type" /\ Len(sib.path) = Len(n.path)
       /\ Join(sib.path) \in SeqToSet(pendingFields)

(***************************************************************************)
(* Properties of generation, continued.                                    *)
(***************************************************************************)
\* the store with state stored for fieldPath
WithState(states, fieldPath, state) ==
  [p \in DOMAIN states \cup {fieldPath} |-> IF p = fieldPath THEN state ELSE states[p]]

\* C14 Pending-default: for a path without entry, the store that holds an
\* explicit PENDING for it gives the same pending list and the same generated
\* document, and so does, for generation, the store that holds APPROVED.
PendingDefault ==
  \A q \in PositionsOf(enrichedProduct, <<>>) :
    Join(q) \notin DOMAIN validationStates =>
      /\ getAllPendingFields(diffResult, WithState(validationStates, Join(q), PENDING), <<>>)
           = pendingFields
      /\ Generated =>
           /\ generateFinalJson(originalDoc, enrichedProduct, diffResult,
                                WithState(validationStates, Join(q), PENDING)) = finalJson
           /\ generateFinalJson(originalDoc, enrichedProduct, diffResult,
                                WithState(validationStates, Join(q), APPROVED)) = finalJson

PendingDefaultWitness ==
  /\ Generated
  /\ \E n, m \in Nodes :
       /\ n.node.type = DiffNEW /\ Join(n.path) \notin DOMAIN validationStates
       /\ Join(n.path) \in SeqToSet(pendingFields)
       /\ GetAt(finalJson, n.path) = n.node.value
       /\ m.node.type = DiffMODIFIED /\ IsLeaf(m) /\ Join(m.path) \notin DOMAIN validationStates
       /\ GetAt(finalJson, m.path) = m.node.value
  /\ \E p \in DOMAIN validationStates : validationStates[p] = DECLINED
Without(states, key) == [p \in DOMAIN states \ {key} |-> states[p]]
Restrict(states, keys) == [p \in DOMAIN states \cap keys |-> states[p]]

\* C6 as claimed: a DECLINED stored for the path of a node with children does
\* not change the generated document.
CompositeDeclineAsClaimed ==
  Generated =>
    \A n \in Nodes :
      (~IsLeaf(n) /\ KeyState(n.path) = DECLINED)
        => finalJson = generateFinalJson(originalDoc, enrichedProduct, diffResult,
                                         Without(validationStates, Join(n.path)))

\* C6 amended: a DECLINED stored for the path of a node with children does not
\* change the generated document unless the node's kind is MODIFIED; the
\* generated document is determined by the entries stored for leaf paths and
\* for the paths of MODIFIED nodes.
CompositeDecline ==
  Generated =>
    /\ \A n \in Nodes :
         (~IsLeaf(n) /\ n.node.type = DiffUNCHANGED /\ KeyState(n.path) = DECLINED)
           => finalJson = generateFinalJson(originalDoc, enrichedProduct, diffResult,
                                            Without(validationStates, Join(n.path)))
    /\ finalJson = generateFinalJson(originalDoc, enrichedProduct, diffResult,
                     Restrict(validationStates,
                              {Join(n.path) : n \in {x \in Nodes :
                                  IsLeaf(x) \/ x.node.type = DiffMODIFIED}}))

CompositeDeclineWitness ==
  /\ Generated
  /\ \E n \in Nodes :
       /\ ~IsLeaf(n) /\ n.node.type = DiffUNCHANGED /\ KeyState(n.path) = DECLINED
       /\ Len(n.node.value.e) > 0
       /\ GetAt(finalJson, n.path) = n.node.value

\* C8 Round-trip: the diff of a document with itself has no NEW or MODIFIED
\* node, and generation from it with an empty store gives the document back.
RoundTrip ==
  originalDoc = enrichedProduct =>
    /\ \A n \in Nodes : n.node.type = DiffUNCHANGED
    /\ (Generated /\ validationStates = EmptyStore) => finalJson = originalDoc

RoundTripWitness ==
  /\ Generated
  /\ validationStates = EmptyStore
  /\ originalDoc = enrichedProduct
  /\ finalJson = originalDoc
  /\ \E n \in Nodes : Len(n.path) = 4

\* the store holds APPROVED for exactly the fields that were pending
AllPendingApproved ==
  /\ validationStates # EmptyStore
  /\ DOMAIN validationStates = SeqToSet(getAllPendingFields(diffResult, EmptyStore, <<>>))
  /\ \A p \in DOMAIN validationStates : validationStates[p] = APPROVED

\* C9 as claimed: once every pending field is APPROVED, the diff of the
\* original with the generated document has no MODIFIED or NEW node at those
\* paths.
IdempotenceAsClaimed ==
  (Generated /\ AllPendingApproved) =>
    \A n \in NodesOf(compareJsonObjects(originalDoc, finalJson), <<>>) :
      Join(n.path) \in DOMAIN validationStates => n.node.type = DiffUNCHANGED

\* C9 amended: once every pending field is APPROVED, the generated document
\* equals the enriched document; the diff of the original with it shows at
\* each of those paths the same kind (NEW or MODIFIED) as before, and
\* getAllPendingFields of that diff is empty.
Idempotence ==
  (Generated /\ AllPendingApproved) =>
    LET rediff == compareJsonObjects(originalDoc, finalJson)
    IN /\ finalJson = enrichedProduct
       /\ getAllPendingFields(rediff, validationStates, <<>>) = <<>>
       /\ \A p \in DOMAIN validationStates :
            \E n \in Nodes, r \in NodesOf(rediff, <<>>) :
              /\ Join(n.path) = p /\ r.path = n.path
              /\ r.node.type = n.node.type
              /\ r.node.type \in {DiffNEW, DiffMODIFIED}

IdempotenceWitness ==
  /\ Generated
  /\ AllPendingApproved
  /\ Cardinality(DOMAIN validationStates) = 2
  /\ \E n, m \in Nodes :
       /\ n.node.type = DiffMODIFIED /\ Join(n.path) \in DOMAIN validationStates
       /\ m.node.type = DiffNEW /\ Join(m.path) \in DOMAIN validationStates

(***************************************************************************)
(* Properties of the diff.                                                 *)
(***************************************************************************)
\* every key of the enriched object that the original object lacks has a NEW
\* node without original value, here and in every object present on both sides
RECURSIVE NewKeysAreNew(_, _, _)
NewKeysAreNew(original, enriched, diff) ==
  enriched.t = "obj" =>
    \A i \in 1..Len(enriched.e) :
      LET key == enriched.e[i].k
          enrichedValue == enriched.e[i].v
          inOriginal == original.t = "obj" /\ key \in SeqToSet(ObjectKeys(original))
          node == DiffGet(diff, key)
      IN IF ~inOriginal
         THEN /\ node # Undefined
              /\ node.type = DiffNEW
              /\ node.originalValue = Undefined
              /\ node.value = enrichedValue
         ELSE (GetProp(original, key).t = "obj" /\ enrichedValue.t = "obj")
                => /\ node # Undefined
                   /\ node.nested.t = "diff"
                   /\ NewKeysAreNew(GetProp(original, key), enrichedValue, node.nested.d)

\* C10 Completeness: every key present in an enriched object and absent from
\* the corresponding original object has a diff node of kind NEW with
\* originalValue undefined, at the top level and inside every object present
\* on both sides.
Completeness == NewKeysAreNew(originalDoc, enrichedProduct, diffResult)

CompletenessWitness ==
  /\ originalDoc.t = "obj"
  /\ \E n, m \in Nodes :
       /\ n.node.type = DiffNEW /\ Len(n.path) = 4
       /\ GetAt(originalDoc, n.path) = Undefined
       /\ m.node.type = DiffNEW /\ Len(m.path) = 2

\* deep equality of two JSON values: objects have the same keys with deep-equal
\* values (in any order), arrays the same length with deep-equal items
RECURSIVE DeepEqual(_, _)
DeepEqual(a, b) ==
  IF a.t # b.t THEN FALSE
  ELSE CASE a.t = "obj" ->
              /\ SeqToSet(ObjectKeys(a)) = SeqToSet(ObjectKeys(b))
              /\ Len(a.e) = Len(b.e)
              /\ \A i \in 1..Len(a.e) : DeepEqual(a.e[i].v, GetProp(b, a.e[i].k))
         [] a.t = "arr" ->
              /\ Len(a.a) = Len(b.a)
              /\ \A i \in 1..Len(a.a) : DeepEqual(a.a[i], b.a[i])
         [] OTHER -> a = b

\* the classification of every key present in both objects, here and below
RECURSIVE ClassifiedDeep(_, _, _)
ClassifiedDeep(original, enriched, diff) ==
  (original.t = "obj" /\ enriched.t = "obj") =>
    \A i \in 1..Len(enriched.e) :
      LET key == enriched.e[i].k
          enrichedValue == enriched.e[i].v
          originalValue == GetProp(original, key)
          node == DiffGet(diff, key)
      IN key \in SeqToSet(ObjectKeys(original)) =>
           /\ node # Undefined
           /\ IF originalValue.t = "obj" /\ enrichedValue.t = "obj"
              THEN /\ node.nested.t = "diff"
                   /\ (node.type = DiffMODIFIED) <=>
                        (\E d \in NodesOf(node.nested.d, <<>>) : d.node.type # DiffUNCHANGED)
                   /\ node.type \in {DiffMODIFIED, DiffUNCHANGED}
                   /\ ClassifiedDeep(originalValue, enrichedValue, node.nested.d)
              ELSE /\ node.nested.t = "undefined"
                   /\ (node.type = DiffMODIFIED) <=> ~DeepEqual(originalValue, enrichedValue)
                   /\ node.type \in {DiffMODIFIED, DiffUNCHANGED}

\* C11 Classification: a key present on both sides with two plain objects has
\* children and is MODIFIED exactly when some descendant is not UNCHANGED;
\* any other key present on both sides has no children and is MODIFIED exactly
\* when the two values are not deep-equal.
ClassificationAsClaimed == ClassifiedDeep(originalDoc, enrichedProduct, diffResult)

\* the diff tree has one node per key of the enriched object, here and below
\* every node with children; a node whose value is an array has no children
RECURSIVE ShapedAs(_, _)
ShapedAs(diff, enriched) ==
  IF enriched.t # "obj" THEN diff = <<>>
  ELSE /\ Len(diff) = Len(enriched.e)
       /\ {diff[i].k : i \in 1..Len(diff)} = SeqToSet(ObjectKeys(enriched))
       /\ \A i \in 1..Len(diff) :
            /\ diff[i].value = GetProp(enriched, diff[i].k)
            /\ diff[i].value.t # "obj" => diff[i].nested.t = "undefined"
            /\ diff[i].nested.t = "diff" => ShapedAs(diff[i].nested.d, diff[i].value)

\* the paths of the keys an original object has and the enriched object at the
\* same place lacks
RECURSIVE OriginalOnlyPaths(_, _, _)
OriginalOnlyPaths(original, enriched, path) ==
  IF original.t = "obj" /\ enriched.t = "obj"
  THEN UNION {IF original.e[i].k \in SeqToSet(ObjectKeys(enriched))
              THEN OriginalOnlyPaths(original.e[i].v, GetProp(enriched, original.e[i].k),
                                     path \o <<original.e[i].k>>)
              ELSE {path \o <<original.e[i].k>>} : i \in 1..Len(original.e)}
  ELSE {}

\* an enclosing node of kind MODIFIED is DECLINED
ModifiedAncestorDeclined(segs) ==
  \E q \in ProperPrefixes(segs) :
    KeyState(q) = DECLINED /\ getDiffTypeForPath(diffResult, q) = DiffMODIFIED

\* C12 as claimed: the diff tree has the keys of the enriched document at every
\* level and no node for array elements; a key of the original alone is in no
\* pending path and absent from the generated document.
DiffShapeAsClaimed ==
  /\ ShapedAs(diffResult, enrichedProduct)
  /\ \A p \in OriginalOnlyPaths(originalDoc, enrichedProduct, <<>>) :
       /\ Join(p) \notin SeqToSet(pendingFields)
       /\ Generated => GetAt(finalJson, p) = Undefined

\* C12 amended: as claimed, except that a key of the original alone is absent
\* from the generated document unless an enclosing MODIFIED node is DECLINED,
\* in which case it is there with its original value.
DiffShape ==
  /\ ShapedAs(diffResult, enrichedProduct)
  /\ \A p \in OriginalOnlyPaths(originalDoc, enrichedProduct, <<>>) :
       /\ Join(p) \notin SeqToSet(pendingFields)
       /\ Generated =>
            GetAt(finalJson, p) =
              IF ModifiedAncestorDeclined(p) THEN GetAt(originalDoc, p) ELSE Undefined

DiffShapeWitness ==
  /\ Generated
  /\ pendingFields # <<>>
  /\ \E p \in OriginalOnlyPaths(originalDoc, enrichedProduct, <<>>) :
       /\ Len(p) = 2
       /\ KeyState(<<p[1]>>) = APPROVED
       /\ getDiffTypeForPath(diffResult, <<p[1]>>) = DiffMODIFIED
       /\ GetAt(finalJson, p) = Undefined
       /\ GetAt(originalDoc, p) # Undefined

(***************************************************************************)
(* Properties of the review session.                                       *)
(***************************************************************************)
\* C5 Export gate: in every state of a session the diff is the diff of the
\* current documents, export is enabled exactly when getAllPendingFields of
\* that diff and the validation store is empty, and a final document is
\* produced only in such a state, from the current documents and store.
ExportGate ==
  /\ diffResult = compareJsonObjects(originalDoc, enrichedProduct)
  /\ Mounted => (isDownloadEnabled <=> (getAllPendingFields(diffResult, validationStates, <<>>) = <<>>))
  /\ Generated =>
       /\ getAllPendingFields(diffResult, validationStates, <<>>) = <<>>
       /\ finalJson = generateFinalJson(originalDoc, enrichedProduct, diffResult, validationStates)

ExportGateWitness ==
  /\ Generated
  /\ isDownloadEnabled
  /\ changes > 0
  /\ enrichedProduct # enrichedSchema
  /\ \E p, q \in DOMAIN validationStates :
       validationStates[p] = DECLINED /\ validationStates[q] = APPROVED

\* C15 Store persistence: a step that commits an edit or removes a field
\* leaves the validation store as it was, the entry of the edited path
\* included; a step that changes the store either leaves the enriched document
\* alone and keeps every path decided (handleValidation) or empties the store
\* (resetValidation, a new session).
StorePersistence ==
  [][/\ lastEvent'.name \in {"handleEditSave", "handleRemoveField"}
          => validationStates' = validationStates
     /\ validationStates' # validationStates
          => \/ validationStates' = EmptyStore
             \/ /\ enrichedProduct' = enrichedProduct
                /\ DOMAIN validationStates \subseteq DOMAIN validationStates']_vars

StorePersistenceWitness ==
  /\ lastEvent.name = "handleEditSave"
  /\ enrichedProduct # enrichedSchema
  /\ Join(lastEvent.path) \in DOMAIN validationStates
  /\ validationStates[Join(lastEvent.path)] = APPROVED
  /\ \E p \in DOMAIN validationStates : validationStates[p] = DECLINED


(***************************************************************************)
(* Properties of editing and removal, checked on the outcome of FnEditSave *)
(* and FnRemoveField.                                                      *)
(***************************************************************************)
IsPrefix(p, q) == Len(p) <= Len(q) /\ SubSeq(q, 1, Len(p)) = p
\* neither position lies on the way to the other
Apart(p, q) == ~IsPrefix(p, q) /\ ~IsPrefix(q, p)
Front(segs) == SubSeq(segs, 1, Len(segs) - 1)

\* C16: after an edit of the field at path p (object keys and "[index]"
\* segments) has been committed with value v, the enriched document holds v at
\* position p, the containers missing on the way to p have been created as
\* objects, every position apart from p is as before, and the diff is the one
\* computed from the new snapshot.
EditCommitWrites ==
  lastEvent.name = "handleEditSave" =>
    LET p == lastEvent.path
        before == lastEvent.before
    IN /\ ValueAt(enrichedProduct, p) = lastEvent.newValue
       /\ \A q \in ProperPrefixes(p) :
            ValueAt(before, q) = Undefined => ValueAt(enrichedProduct, q).t = "obj"
       /\ \A q \in PositionsOf(before, <<>>) :
            Apart(p, q) => ValueAt(enrichedProduct, q) = ValueAt(before, q)
       /\ \A q \in PositionsOf(enrichedProduct, <<>>) :
            Apart(p, q) => q \in PositionsOf(before, <<>>)
       /\ diffResult = compareJsonObjects(originalDoc, enrichedProduct)


\* the texts that read as a number, and as a boolean in any case
NumberTexts == {"12"}
BooleanTexts == {"true", "false", "TRUE", "FALSE"}

\* C17 ParseFailure fallback: when the value before the edit is a number or a
\* boolean and the text entered cannot be coerced to that type, the edit is
\* committed and the value it stores is the text itself, as a string.
ParseFailureFallback ==
  (/\ lastEvent.name = "handleEditSave"
   /\ \/ lastEvent.value.t = "num" /\ lastEvent.editValue \notin NumberTexts
      \/ lastEvent.value.t = "bool" /\ lastEvent.editValue \notin BooleanTexts)
    => lastEvent.newValue = Str(lastEvent.editValue)


\* C18 Field removal: removing the field at a path never raises; when a
\* segment on the way to the parent does not resolve the enriched document is
\* unchanged; from a parent array exactly the element at the parsed index is
\* removed and the others keep their order (nothing when the index does not
\* parse); from a parent object exactly that key is deleted.
FieldRemoval ==
  lastEvent.name = "handleRemoveField" =>
    LET p == lastEvent.path
        before == lastEvent.before
        parent == ValueAt(before, Front(p))
        finalKey == p[Len(p)]
        resolves == \A q \in ProperPrefixes(p) : ValueAt(before, q) # Undefined
        idx == ParseIndex(finalKey, Len(parent.a))
    IN /\ enrichedProduct # TypeError
       /\ ~resolves => enrichedProduct = before
       /\ (resolves /\ parent.t = "arr") =>
            IF idx >= 0 /\ idx < Len(parent.a)
            THEN ValueAt(enrichedProduct, Front(p)) =
                   Arr(SubSeq(parent.a, 1, idx) \o SubSeq(parent.a, idx + 2, Len(parent.a)))
            ELSE enrichedProduct = before
       /\ (resolves /\ parent.t = "obj") =>
            /\ ObjectKeys(ValueAt(enrichedProduct, Front(p))) =
                 SelectSeq(ObjectKeys(parent), LAMBDA k : k # finalKey)
            /\ \A k \in SeqToSet(ObjectKeys(parent)) \ {finalKey} :
                 GetProp(ValueAt(enrichedProduct, Front(p)), k) = GetProp(parent, k)
       /\ \A q \in PositionsOf(before, <<>>) :
            Apart(Front(p), q) => ValueAt(enrichedProduct, q) = ValueAt(before, q)


(***************************************************************************)
(* Properties of the fetch of a new document pair.                         *)
(***************************************************************************)
\* C19 Fetch failure leaves the session untouched: when a request fails while
\* a session exists, the document pair, the diff tree, the validation store and
\* the editing cursor are exactly as before; nothing is cleared.
FetchFailureUntouched ==
  [][(/\ result # Undefined
      /\ lastEvent'.name = "enrichProductSchema"
      /\ ~lastEvent'.ok)
       => /\ result' = result
          /\ originalDoc' = originalDoc
          /\ enrichedProduct' = enrichedProduct
          /\ diffResult' = diffResult
          /\ validationStates' = validationStates
          /\ editingState' = editingState]_vars


(***************************************************************************)
(* Properties of the review tree.                                          *)
(***************************************************************************)
\* the leaf descendants of the node at path holding value
RECURSIVE LeavesOf(_, _)
LeavesOf(value, path) ==
  LET items == ChildItems(value)
  IN UNION {IF isExpandable(items[i].v)
            THEN LeavesOf(items[i].v, path \o <<items[i].seg>>)
            ELSE {path \o <<items[i].seg>>} : i \in 1..Len(items)}
\* an object or array without children lies below the node
RECURSIVE EmptyBelow(_, _)
EmptyBelow(value, path) ==
  LET items == ChildItems(value)
  IN \E i \in 1..Len(items) :
       /\ isExpandable(items[i].v)
       /\ \/ ChildItems(items[i].v) = <<>>
          \/ EmptyBelow(items[i].v, path \o <<items[i].seg>>)
AllLeavesApproved(value, path) ==
  LET leaves == LeavesOf(value, path)
  IN /\ leaves # {}
     /\ \A q \in leaves : StateOf(validationStates, Join(q)) = APPROVED

\* C21 as stated: a composite node is fully approved iff it has a leaf
\* descendant and every leaf descendant is stored APPROVED; it is fully declined
\* iff its own stored state is DECLINED and it is not fully approved.
EffectiveStateAsClaimed ==
  \A n \in TreeNodes :
    isExpandable(n.displayValue) =>
      /\ isFullyApproved(n, validationStates) <=> AllLeavesApproved(n.displayValue, n.path)
      /\ isFullyDeclined(n, validationStates) <=>
           (n.validationState = DECLINED /\ ~AllLeavesApproved(n.displayValue, n.path))

\* C21: a composite node is fully approved iff its own stored state is
\* APPROVED, or its own stored state is PENDING and it has a leaf descendant,
\* every leaf descendant is stored APPROVED and no object or array below it is
\* empty; it is fully declined iff its own stored state is DECLINED and it is
\* not the case that it has a leaf descendant, every leaf descendant is stored
\* APPROVED and no object or array below it is empty.
EffectiveState ==
  \A n \in TreeNodes :
    isExpandable(n.displayValue) =>
      LET approved == /\ AllLeavesApproved(n.displayValue, n.path)
                      /\ ~EmptyBelow(n.displayValue, n.path)
      IN /\ isFullyApproved(n, validationStates) <=>
              \/ n.validationState = APPROVED
              \/ n.validationState = PENDING /\ approved
         /\ isFullyDeclined(n, validationStates) <=> (n.validationState = DECLINED /\ ~approved)

\* a composite node without a state of its own, whose only leaf is APPROVED
\* next to an empty array or object, is not fully approved, and a composite
\* node stored APPROVED is fully approved though not every leaf below it is
EffectiveStateWitness ==
  /\ \E n \in TreeNodes :
       /\ isExpandable(n.displayValue)
       /\ n.validationState = PENDING
       /\ AllLeavesApproved(n.displayValue, n.path)
       /\ EmptyBelow(n.displayValue, n.path)
       /\ ~isFullyApproved(n, validationStates)
  /\ \E n \in TreeNodes :
       /\ isExpandable(n.displayValue)
       /\ n.validationState = APPROVED
       /\ ~AllLeavesApproved(n.displayValue, n.path)
       /\ isFullyApproved(n, validationStates)


(***************************************************************************)
(* Properties of the review session.                                       *)
(***************************************************************************)
\* C22 Editing cursor: one {path, value} slot holds the edit; starting an edit
\* replaces the one before; the cursor is empty after a commit, after a cancel
\* and after every recomputation of the enriched document caused by an edit
\* commit or a field removal.
EditingCursor ==
  [][/\ lastEvent'.name = "handleEditSave" => editingState' = NoEdit
     /\ (lastEvent'.name = "handleRemoveField" /\ enrichedProduct' # enrichedProduct)
          => editingState' = NoEdit
     /\ editingState' # editingState
          => \/ editingState' = NoEdit
             \/ \E n \in TreeNodes :
                  editingState' = [fieldPath |-> StrOf(Join(n.path)), value |-> n.value]]_vars


\* C23 Reset restores the initial session: after the reset action the validation
\* store is empty and the enriched document is deep-equal to the one the session
\* was created with, so the pending list and the output of generateFinalJson are
\* those of a fresh session on the same pair.
ResetRestores ==
  lastEvent.name = "resetValidation" =>
    LET fresh == Render(originalDoc, enrichedSchema, EmptyStore)
    IN /\ validationStates = EmptyStore
       /\ DeepEqual(enrichedProduct, enrichedSchema)
       /\ pendingFields = fresh.pendingFields
       /\ isDownloadEnabled = fresh.isDownloadEnabled
       /\ generateFinalJson(originalDoc, enrichedProduct, diffResult, validationStates)
            = generateFinalJson(originalDoc, enrichedSchema, fresh.diffResult, EmptyStore)

\* a session with decisions and a rewritten document has been reset
ResetRestoresWitness ==
  /\ lastEvent.name = "resetValidation"
  /\ lastEvent.reviewed
  /\ Len(pendingFields) > 0


(***************************************************************************)
(* Properties of path keys.                                                *)
(***************************************************************************)
\* C24 Path keys are injective: two different positions of a document never
\* get the same FieldPathKey, and splitting a key on "." gives back the
\* segments it was joined from; a decision stored for one field is therefore
\* never read as the decision of another field.
PathKeysInjective ==
  /\ \A p, q \in PositionsOf(enrichedProduct, <<>>) : p # q => Join(p) # Join(q)
  /\ \A p \in PositionsOf(enrichedProduct, <<>>) : Split(Join(p)) = p
  /\ \A p, q \in PositionsOf(enrichedProduct, <<>>) :
       (p # q /\ DOMAIN validationStates = {Join(p)}) => KeyState(q) = PENDING


(***************************************************************************)
(* The review tree against the generated document.                         *)
(***************************************************************************)
\* the positions at which the tree offers approve and decline while pending:
\* primitive values whose resolved kind is NEW or MODIFIED, below no declined node
Reviewable ==
  {p \in PositionsOf(enrichedProduct, <<>>) :
     /\ ~isExpandable(ValueAt(enrichedProduct, p))
     /\ getDiffTypeForPath(diffResult, p) \in {DiffNEW, DiffMODIFIED}
     /\ ~AncestorDeclined(p)}

\* C25 Export agrees with the review tree for declined fields: for every field
\* on which the tree offers approve and decline (resolved kind NEW or MODIFIED,
\* leaves inside an object or array that is NEW or MODIFIED as a whole
\* included) and that is DECLINED, the generated document has no value at the
\* path when the kind is NEW and the original document's value at that path
\* when the kind is MODIFIED.
ExportAgreesWithTree ==
  finalJson # NoOutput =>
    \A p \in Reviewable :
      KeyState(p) = DECLINED =>
        IF getDiffTypeForPath(diffResult, p) = DiffNEW
        THEN ValueAt(finalJson, p) = Undefined
        ELSE ValueAt(finalJson, p) = ValueAt(originalDoc, p)


(***************************************************************************)
(* Properties that relate decisions to the generated document.             *)
(***************************************************************************)
\* every NEW and every MODIFIED leaf of the diff tree is DECLINED
AllChangesDeclined ==
  \A n \in Nodes :
    (IsLeaf(n) /\ n.node.type \in {DiffNEW, DiffMODIFIED}) => KeyState(n.path) = DECLINED

\* C26 as stated: for every pair of objects, when every NEW and every MODIFIED
\* leaf of the diff tree is DECLINED, the generated document is deep-equal to
\* the original document.
DeclineAllAsClaimed ==
  (/\ finalJson # NoOutput
   /\ originalDoc.t = "obj"
   /\ enrichedProduct.t = "obj"
   /\ AllChangesDeclined)
    => DeepEqual(finalJson, originalDoc)

\* C26: for every pair of objects in which the enriched document has every key
\* of the original at every level, when every NEW and every MODIFIED leaf of the
\* diff tree is DECLINED, the generated document is deep-equal to the original
\* document.
DeclineAll ==
  (/\ finalJson # NoOutput
   /\ originalDoc.t = "obj"
   /\ enrichedProduct.t = "obj"
   /\ OriginalOnlyPaths(originalDoc, enrichedProduct, <<>>) = {}
   /\ AllChangesDeclined)
    => DeepEqual(finalJson, originalDoc)

\* a NEW leaf and a MODIFIED leaf, both DECLINED, and the document generated
DeclineAllWitness ==
  /\ finalJson # NoOutput
  /\ originalDoc.t = "obj"
  /\ enrichedProduct.t = "obj"
  /\ OriginalOnlyPaths(originalDoc, enrichedProduct, <<>>) = {}
  /\ AllChangesDeclined
  /\ \E n \in Nodes : IsLeaf(n) /\ n.node.type = DiffNEW
  /\ \E n \in Nodes : IsLeaf(n) /\ n.node.type = DiffMODIFIED
  /\ finalJson # enrichedProduct


\* C27 A committed edit is what gets exported: once an edit of the field at
\* path p to value v has been committed, and while no later decision is taken
\* on p, the document generateFinalJson returns holds v at p, also when p
\* carried an APPROVED or DECLINED decision from before the edit.
EditExported ==
  lastEvent.name = "handleEditSave" =>
    ValueAt(generateFinalJson(originalDoc, enrichedProduct, diffResult, validationStates),
            lastEvent.path) = lastEvent.newValue


(***************************************************************************)
(* Properties of the "Approve All Changes" button.                         *)
(***************************************************************************)
\* C28 Approve All touches pending fields only: after handleApproveAll every
\* path that was DECLINED is still DECLINED, the generated document is
\* unchanged at those paths, and only paths that were PENDING have become
\* APPROVED.
ApproveAllPendingOnly ==
  [][HandleApproveAll =>
       /\ \A p \in DOMAIN validationStates :
            validationStates[p] = DECLINED => StateOf(validationStates', p) = DECLINED
       /\ \A p \in DOMAIN validationStates' :
            (validationStates'[p] = APPROVED /\ StateOf(validationStates, p) # APPROVED)
              => StateOf(validationStates, p) = PENDING
       /\ \A q \in PositionsOf(enrichedProduct, <<>>) :
            StateOf(validationStates, Join(q)) = DECLINED
              => ValueAt(generateFinalJson(originalDoc, enrichedProduct', diffResult',
                                           validationStates'), q)
                   = ValueAt(generateFinalJson(originalDoc, enrichedProduct, diffResult,
                                               validationStates), q)]_vars


\* C29 Approve All opens the gate: immediately after handleApproveAll the list
\* returned by getAllPendingFields is empty and export is enabled, whatever
\* the enriched document holds (nested objects, arrays, null values).
ApproveAllOpensGate ==
  lastEvent.name = "handleApproveAll" =>
    /\ getAllPendingFields(compareJsonObjects(originalDoc, enrichedProduct),
                           validationStates, <<>>) = <<>>
    /\ pendingFields = <<>>
    /\ isDownloadEnabled

\* Approve All on the document with a null value, arrays and nested objects,
\* after a field had been declined
ApproveAllOpensGateWitness ==
  /\ lastEvent.name = "handleApproveAll"
  /\ lastEvent.declined
  /\ enrichedProduct = EditEnriched
  /\ StateOf(validationStates, Join(<<"note">>)) = APPROVED
  /\ StateOf(validationStates, Join(<<"items", "[0]", "tags", "[0]">>)) = APPROVED


\* C30 Latest request wins: when enrichProductSchema has been called again
\* while an earlier call was awaited, then in the step that completes the last
\* of the calls, in whatever order their answers arrived, result comes to hold
\* the outcome of the call issued last.
LatestRequestWins ==
  [][(/\ Len(calls') >= 2
      /\ \E i \in 1..Len(calls) : ~calls[i].settled
      /\ \A i \in 1..Len(calls') : calls'[i].settled)
       => result' = calls'[Len(calls')].outcome]_vars

====
